---- MODULE Spec2Model ----
\* Model of the DX TECHIES surveillance component (App, src/unnamed/part_000)
\* and of its alert helper (src/utils/audio.ts).
\*
\* The component is a React function component.  Its state is the useState
\* cells and the useRef cells; the module variable lastAlertTime of audio.ts;
\* the <video> element; the MediaRecorder objects; and the callbacks that
\* the browser still owes the program (promises, timers, animation frames).
\* Every action is one task of the single JavaScript thread: the handler,
\* the render it causes and the effects of that render.
\* Display-only cells (activeTab, sessionDuration) are not modelled.
EXTENDS Integers, Sequences, FiniteSets, Bags, TLC

\* ------------------------------------------------------------------ bounds
MaxSecs == 2        \* horizon of the clock, in seconds after mount
MaxOps == 3         \* session commands (start, upload, stop, record) in one behaviour
MaxCfg == 1         \* configuration changes in one behaviour
MaxCycles == 2      \* detection results applied, and animation frames requested
TrendSecs == 32     \* horizon of the clock in the trend specification
MaxWarn == 2        \* rejected detections in the liveness specification
MaxDeliveries == 6  \* counts delivered in the half-second specification
MaxLogOps == 102    \* session commands in the operator's-round specification

\* ------------------------------------------------------- program constants
COOLDOWN == 2000          \* audio.ts: if (now - lastAlertTime < 2000) return
FPS_WINDOW == 1000        \* if (delta >= 1000)
TREND_CAP == 30           \* .slice(-30)
LOG_CAP == 100            \* .slice(0, 100)
HAVE_ENOUGH_DATA == 4     \* videoRef.current.readyState === 4
DELAY_FAST == 30
DELAY_NORMAL == 100
DELAY_ACCURATE == 250

\* ------------------------------------------------------------ input sets
StartTimes == {58500}             \* Date.now() at mount, in ms
TimeSteps == {1000}               \* resolution of the modelled clock, in ms
Thresholds == {1, 3}              \* slider 1..20, initial value 3
Confidences == {30, 50}           \* slider 0.1..0.9, in percent
Speeds == {"fast", "normal", "accurate"}
Null == "null"

\* A prediction of the model: class and score (in percent).  bbox is only
\* used for drawing.
Pred(c, s) == [class |-> c, score |-> s]

\* The frames the camera can show, as the prediction lists detect returns.
Frames ==
  { << >>,
    << Pred("person", 40), Pred("person", 60), Pred("car", 90) >>,
    << Pred("person", 50), Pred("person", 60), Pred("person", 90) >> }

\* A recorded scene for the trend specification: the frame shown during each
\* second, repeating.
Reel ==
  << << Pred("person", 60), Pred("car", 90) >>,
     << >>,
     << Pred("person", 50), Pred("person", 60), Pred("person", 90) >>,
     << Pred("person", 40), Pred("person", 60), Pred("car", 90) >> >>

ReelFrame(t) == Reel[((t \div 1000) % Len(Reel)) + 1]

\* A frame showing n people, each detected with score 0.9.
Crowd(n) == [i \in 1 .. n |-> Pred("person", 90)]

\* The frames of the half-second specification: 0, 2, 4 or 5 people.
CrowdFrames == { Crowd(0), Crowd(2), Crowd(4), Crowd(5) }

\* The half-second grid: the time of the delivery that follows k others, in
\* ms after the first one.
GridOffset(k) == k * 500

\* --------------------------------------------------------------- helpers
Max(a, b) == IF a >= b THEN a ELSE b

Min(a, b) == IF a <= b THEN a ELSE b

RECURSIVE SeqMax(_)
SeqMax(s) == IF s = << >> THEN 0 ELSE Max(Head(s), SeqMax(Tail(s)))

RECURSIVE CountPositive(_)
CountPositive(s) ==
  IF s = << >> THEN 0
  ELSE (IF Head(s) > 0 THEN 1 ELSE 0) + CountPositive(Tail(s))

\* Array.prototype.slice(-n): the last n elements.
SliceLast(s, n) ==
  IF Len(s) <= n THEN s ELSE SubSeq(s, Len(s) - n + 1, Len(s))

\* Array.prototype.slice(0, n): the first n elements.
SliceFirst(s, n) == IF Len(s) <= n THEN s ELSE SubSeq(s, 1, n)

\* Math.round of the quotient a / b of two naturals, b > 0.
RoundDiv(a, b) == (2 * a + b) \div (2 * b)

\* toLocaleTimeString with 2-digit hour, minute and second (UTC, 24 h).
FormatTime(t) ==
  LET secs == t \div 1000
  IN  [h |-> (secs \div 3600) % 24, m |-> (secs \div 60) % 60, s |-> secs % 60]

\* Mutant of FilterPeople: the score must exceed the cutoff.
FilterPeople_Above(predictions, conf) ==
  SelectSeq(predictions, LAMBDA p : p.class = "person" /\ p.score > conf)

\* predictions.filter(p => p.class === 'person' && p.score >= confidence)
FilterPeople(predictions, conf) ==
  SelectSeq(predictions, LAMBDA p : p.class = "person" /\ p.score >= conf)

\* detectionSpeed === FAST ? 30 : detectionSpeed === NORMAL ? 100 : 250
DelayOf(speed) ==
  IF speed = "fast" THEN DELAY_FAST
  ELSE IF speed = "normal" THEN DELAY_NORMAL ELSE DELAY_ACCURATE

\* ------------------------------------------------------------------ state
VARIABLES
  model,            \* "loading", "ready" (model and isSystemReady set), "failed"
  isMonitoring,     \* useState(false)
  isRecording,      \* useState(false)
  stats,            \* useState<Stats>
  chartData,        \* useState: the trend buffer
  logs,             \* useState<LogEntry[]>
  fps,              \* useState(0)
  config,           \* threshold, confidence, detectionSpeed, soundEnabled
  frameCount,       \* frameCountRef.current
  lastFpsTime,      \* lastFpsTimeRef.current
  historyRef,       \* historyRef.current: every count that was applied
  lastAlertTime,    \* audio.ts module variable
  alertsFired,      \* history: one record for every alert tone emitted
  samples,          \* history: every point appended to the trend buffer
  now,              \* Date.now()
  video,            \* the <video> element behind videoRef
  gumPending,       \* getUserMedia promises not yet settled
  chains,           \* bag of live runDetection chains
  detectionLoopRef, \* detectionLoopRef.current: last animation-frame id, 0 = null
  nextRafId,        \* next id requestAnimationFrame returns
  recorders,        \* the MediaRecorder objects created so far
  mediaRecorderRef, \* mediaRecorderRef.current: index into recorders, 0 = null
  ops,              \* session commands issued so far
  cfgOps,           \* configuration changes made so far
  screenshots,      \* useState<Screenshot[]>
  lastCmd,          \* history: the control the user operated last
  warnings,         \* the console: what each console.warn of runDetection reported
  rendered          \* the last detect result and what renderDetections drew of it

\* What a detection cycle writes when its result is applied.
cycleVars == << stats, chartData, fps, frameCount, lastFpsTime, historyRef,
                lastAlertTime, alertsFired, samples >>

\* The detection loop's callbacks and its animation-frame bookkeeping.
loopVars == << chains, detectionLoopRef, nextRafId >>

\* The recorders and the ref to the latest one.
recVars == << recorders, mediaRecorderRef >>

vars == << model, isMonitoring, isRecording, logs, config, now, video,
           gumPending, cycleVars, loopVars, recVars, ops, cfgOps,
           screenshots, lastCmd, warnings, rendered >>

\* ------------------------------------------------------------ operators
\* Mutant of AddLog: slice(-100), which drops the newest entry.
AddLog_DropsNewest(prev, message, type) ==
  SliceLast(<< [message |-> message, type |-> type] >> \o prev, LOG_CAP)

\* addLog: setLogs(prev => [entry, ...prev].slice(0, 100)).  Of a LogEntry
\* the message and the type are kept; id (random) and time are not.
AddLog(prev, message, type) ==
  SliceFirst(<< [message |-> message, type |-> type] >> \o prev, LOG_CAP)

\* What a runDetection callback closes over: the dependency list of its
\* useCallback.  model is TRUE when the model object is not null.
Closure(m, mon, cfg) ==
  [model |-> (m = "ready"), isMonitoring |-> mon,
   confidence |-> cfg.confidence, threshold |-> cfg.threshold,
   soundEnabled |-> cfg.soundEnabled, detectionSpeed |-> cfg.detectionSpeed]

\* A chain is one self-rescheduling runDetection callback: awaiting
\* model.detect, waiting on its setTimeout, or waiting on its animation frame.
Chain(phase, rafId, delay, cl) ==
  [phase |-> phase, rafId |-> rafId, delay |-> delay, cl |-> cl]

\* setTimeout(() => { detectionLoopRef.current = requestAnimationFrame(...) }, delay)
ScheduleNext(cl) == Chain("timer", 0, DelayOf(cl.detectionSpeed), cl)

\* The synchronous part of a call of runDetection with closure cl: the guard,
\* then either the await of model.detect or straight to the setTimeout.
RunDetectionCall(chs, cl, readyState) ==
  IF ~cl.model \/ ~cl.isMonitoring THEN chs
  ELSE IF readyState = HAVE_ENOUGH_DATA
       THEN chs (+) SetToBag({Chain("detect", 0, 0, cl)})
       ELSE chs (+) SetToBag({ScheduleNext(cl)})

\* if (detectionLoopRef.current) cancelAnimationFrame(detectionLoopRef.current)
CancelAnimationFrame(chs, ref) ==
  IF ref = 0 THEN chs
  ELSE LET hit == {c \in BagToSet(chs) : c.phase = "raf" /\ c.rafId = ref}
       IN  [c \in BagToSet(chs) \ hit |-> chs[c]]

\* useEffect(..., [isMonitoring, runDetection]): when the closure changed, the
\* cleanup of the previous render runs and then the new effect body.
LaunchLoop(oldCl, newCl, chs, ref, readyState) ==
  IF newCl = oldCl THEN chs
  ELSE LET cleaned == CancelAnimationFrame(chs, ref)
       IN  IF newCl.isMonitoring
           THEN RunDetectionCall(cleaned, newCl, readyState)
           ELSE cleaned

\* The chains of a bag that are in a given phase, counted with multiplicity.
PhaseCount(chs, phase) ==
  BagCardinality([c \in {d \in BagToSet(chs) : d.phase = phase} |-> chs[c]])

\* Mutant of AfterCatch: a rejected detection ends the chain.
AfterCatch_EndsChain(chs, c) == chs (-) SetToBag({c})

\* After the catch block control falls through to the setTimeout.
AfterCatch(chs, c) == (chs (-) SetToBag({c})) (+) SetToBag({ScheduleNext(c.cl)})

\* Mutant of UpdateStats: the peak is overwritten by the latest count.
UpdateStats_PeakIsLast(prev, count) ==
  [prev EXCEPT !.currentCount = count,
               !.peakCount = count,
               !.totalDetections = prev.totalDetections + (IF count > 0 THEN 1 ELSE 0)]

\* Mutant of UpdateStats: totalDetections adds the people of the frame.
UpdateStats_AddsPeople(prev, count) ==
  [prev EXCEPT !.currentCount = count,
               !.peakCount = Max(prev.peakCount, count),
               !.totalDetections = prev.totalDetections + count]

\* setStats(prev => ({...prev, currentCount, peakCount, totalDetections}))
UpdateStats(prev, count) ==
  [prev EXCEPT !.currentCount = count,
               !.peakCount = Max(prev.peakCount, count),
               !.totalDetections = prev.totalDetections + (IF count > 0 THEN 1 ELSE 0)]

\* Mutant of StartSession: a new session starts from fresh counters.
StartSession_Resets(prev, t) ==
  [currentCount |-> 0, peakCount |-> 0, avgCount |-> prev.avgCount,
   totalDetections |-> 0, sessionStartTime |-> t]

\* setStats(s => ({ ...s, sessionStartTime: Date.now() }))
StartSession(prev, t) == [prev EXCEPT !.sessionStartTime = t]

\* Mutant of CooldownPassed: the cooldown must be exceeded, not reached.
CooldownPassed_Exceeded(t, last) == t - last > COOLDOWN

\* Mutant of CooldownPassed: a cooldown of 200 ms.
CooldownPassed_200ms(t, last) == ~(t - last < 200)

\* playAlertSound: if (now - lastAlertTime < 2000) return
CooldownPassed(t, last) == ~(t - last < COOLDOWN)

\* if (soundEnabled && count >= threshold) playAlertSound()
AlertWanted(cl, count) == cl.soundEnabled /\ count >= cl.threshold

\* Mutant of PushChart: slice(0, 30), which keeps the oldest points.
PushChart_KeepsOldest(prev, point) == SliceFirst(Append(prev, point), TREND_CAP)

\* setChartData(prev => [...prev, {time, count}].slice(-30))
PushChart(prev, point) == SliceLast(Append(prev, point), TREND_CAP)

\* The disabled attributes of the buttons.
StartEnabled == ~(isMonitoring \/ model # "ready")

\* Mutant of StopEnabled: the stop button is never disabled.
StopEnabled_Always == TRUE

StopEnabled == ~(~isMonitoring)

\* Mutant of RecordEnabled: the record button is never disabled.
RecordEnabled_Always == TRUE

\* Mutant of RecordEnabled: the record button is disabled like the start
\* button's model condition only.
RecordEnabled_WhenReady == model = "ready"

RecordEnabled == ~(~isMonitoring)

\* Mutant of NewShot: the screenshot carries the peak count.
NewShot_Peak(st) == [count |-> st.peakCount]

\* newShot: { id, url, timestamp, count: stats.currentCount }
NewShot(st) == [count |-> st.currentCount]

\* Mutant of CaptureEnabled: the capture button is never disabled.
CaptureEnabled_Always == TRUE

CaptureEnabled == ~(~isMonitoring)

CurClosure == Closure(model, isMonitoring, config)

\* ------------------------------------------------------------------- Init
Init ==
  /\ model = "loading"
  /\ isMonitoring = FALSE
  /\ isRecording = FALSE
  /\ stats = [currentCount |-> 0, peakCount |-> 0, avgCount |-> 0,
              totalDetections |-> 0, sessionStartTime |-> Null]
  /\ chartData = << >>
  /\ logs = << >>
  /\ fps = 0
  /\ config = [threshold |-> 3, confidence |-> 50,
               detectionSpeed |-> "normal", soundEnabled |-> TRUE]
  /\ frameCount = 0
  /\ now \in StartTimes
  /\ lastFpsTime = now
  /\ historyRef = << >>
  /\ lastAlertTime = 0
  /\ alertsFired = << >>
  /\ samples = << >>
  /\ video = [source |-> "none", readyState |-> 0, onloadedmetadata |-> "none"]
  /\ gumPending = 0
  /\ chains = EmptyBag
  /\ detectionLoopRef = 0
  /\ nextRafId = 1
  /\ recorders = << >>
  /\ mediaRecorderRef = 0
  /\ ops = 0
  /\ cfgOps = 0
  /\ screenshots = << >>
  /\ lastCmd = "none"
  /\ warnings = << >>
  /\ rendered = [predictions |-> << >>, confidence |-> 50, people |-> << >>]

\* ------------------------------------------------------------ model load
\* loadModel resolves: setModel, setIsSystemReady, addLog; runDetection gets
\* a new identity, so the launch effect runs again.
LoadModelDone ==
  /\ model = "loading"
  /\ model' = "ready"
  /\ logs' = AddLog(logs, "Neural network initialized and ready.", "success")
  /\ chains' = LaunchLoop(CurClosure, Closure("ready", isMonitoring, config),
                          chains, detectionLoopRef, video.readyState)
  /\ UNCHANGED << isMonitoring, isRecording, config, now, video, gumPending,
                  cycleVars, detectionLoopRef, nextRafId, recVars, ops,
                  cfgOps, screenshots, lastCmd, warnings, rendered >>

\* loadModel rejects: only the log entry; model stays null.
LoadModelFail ==
  /\ model = "loading"
  /\ model' = "failed"
  /\ logs' = AddLog(logs, "Failed to initialize detection engine.", "error")
  /\ UNCHANGED << isMonitoring, isRecording, config, now, video, gumPending,
                  cycleVars, loopVars, recVars, ops, cfgOps, screenshots,
                  lastCmd, warnings, rendered >>

\* ----------------------------------------------------------------- start
\* Click on "Start Webcam": handleStartWebcam runs up to its await of
\* getUserMedia.
StartWebcam(budget) ==
  /\ ops < budget
  /\ StartEnabled
  /\ gumPending' = gumPending + 1
  /\ ops' = ops + 1
  /\ lastCmd' = "start"
  /\ UNCHANGED << model, isMonitoring, isRecording, logs, config, now, video,
                  cycleVars, loopVars, recVars, cfgOps, screenshots, warnings,
                  rendered >>

StartWebcamClick == StartWebcam(MaxOps)

\* The same click, by a user who starts a session only when none is under
\* way: no getUserMedia is pending and the video element has no source.
StartFromRest ==
  /\ gumPending = 0 /\ video.source = "none"
  /\ StartWebcamClick

\* getUserMedia resolves: srcObject = stream, onloadedmetadata = handler.
GetUserMediaResolve ==
  /\ gumPending > 0
  /\ gumPending' = gumPending - 1
  /\ video' = [source |-> "stream", readyState |-> 0, onloadedmetadata |-> "webcam"]
  /\ UNCHANGED << model, isMonitoring, isRecording, logs, config, now,
                  cycleVars, loopVars, recVars, ops, cfgOps, screenshots,
                  lastCmd, warnings, rendered >>

\* Mutant of CameraError: the failure is logged as a warning.
CameraError_AsWarning(prev) ==
  AddLog(prev, "Failed to access camera. Check permissions.", "warning")

\* addLog("Failed to access camera. Check permissions.", "error")
CameraError(prev) ==
  AddLog(prev, "Failed to access camera. Check permissions.", "error")

\* getUserMedia rejects: catch -> addLog(..., "error").
GetUserMediaReject ==
  /\ gumPending > 0
  /\ gumPending' = gumPending - 1
  /\ logs' = CameraError(logs)
  /\ UNCHANGED << model, isMonitoring, isRecording, config, now, video,
                  cycleVars, loopVars, recVars, ops, cfgOps, screenshots,
                  lastCmd, warnings, rendered >>

\* A file is chosen in the upload input (never disabled): handleUpload.
HandleUpload ==
  /\ ops < MaxOps
  /\ video' = [source |-> "file", readyState |-> 0, onloadedmetadata |-> "file"]
  /\ ops' = ops + 1
  /\ lastCmd' = "upload"
  /\ UNCHANGED << model, isMonitoring, isRecording, logs, config, now,
                  gumPending, cycleVars, loopVars, recVars, cfgOps,
                  screenshots, warnings, rendered >>

\* The video element fires loadedmetadata for its new source: the handler
\* installed by handleStartWebcam or handleUpload runs, then the render and
\* the launch effect.
LoadedMetadata ==
  /\ video.source # "none" /\ video.readyState = 0
  /\ video' = [video EXCEPT !.readyState = 1]
  /\ isMonitoring' = TRUE
  /\ stats' = StartSession(stats, now)
  /\ logs' = IF video.onloadedmetadata = "webcam"
             THEN AddLog(logs, "Live monitoring started via webcam.", "success")
             ELSE AddLog(logs, "Processing video file", "info")
  /\ chains' = LaunchLoop(CurClosure, Closure(model, TRUE, config),
                          chains, detectionLoopRef, 1)
  /\ UNCHANGED << model, isRecording, config, now, gumPending, chartData, fps,
                  frameCount, lastFpsTime, historyRef, lastAlertTime,
                  alertsFired, samples, detectionLoopRef, nextRafId, recVars,
                  ops, cfgOps, screenshots, lastCmd, warnings, rendered >>

\* The playing video has buffered enough: readyState becomes 4.
VideoCanPlay ==
  /\ video.source # "none" /\ video.readyState = 1
  /\ video' = [video EXCEPT !.readyState = HAVE_ENOUGH_DATA]
  /\ UNCHANGED << model, isMonitoring, isRecording, logs, config, now,
                  gumPending, cycleVars, loopVars, recVars, ops, cfgOps,
                  screenshots, lastCmd, warnings, rendered >>

\* The source runs out while it plays: the uploaded file reaches its end or
\* the camera's track ends.  The element keeps the current frame only
\* (readyState 2, HAVE_CURRENT_DATA); no handler is installed for it.
SourceEnds ==
  /\ video.source # "none" /\ video.readyState = HAVE_ENOUGH_DATA
  /\ video' = [video EXCEPT !.readyState = 2]
  /\ UNCHANGED << model, isMonitoring, isRecording, logs, config, now,
                  gumPending, cycleVars, loopVars, recVars, ops, cfgOps,
                  screenshots, lastCmd, warnings, rendered >>

\* ------------------------------------------------------------------ stop
\* Click on "Stop Feed": handleStop, then the render with isMonitoring =
\* false and the cleanup of the launch effect.
Stop(budget) ==
  /\ ops < budget
  /\ StopEnabled
  /\ isMonitoring' = FALSE
  /\ isRecording' = FALSE
  /\ chains' = LaunchLoop(CurClosure, Closure(model, FALSE, config),
                          CancelAnimationFrame(chains, detectionLoopRef),
                          detectionLoopRef, 0)
  /\ video' = [video EXCEPT !.source = "none", !.readyState = 0]
  /\ logs' = AddLog(logs, "Monitoring halted.", "warning")
  /\ ops' = ops + 1
  /\ lastCmd' = "stop"
  /\ UNCHANGED << model, config, now, gumPending, cycleVars, detectionLoopRef,
                  nextRafId, recVars, cfgOps, screenshots, warnings,
                  rendered >>

HandleStop == Stop(MaxOps)

\* Click on "Stop Feed" while the button is disabled: the browser dispatches
\* no click event, so no handler runs.
StopIgnored ==
  /\ ops < MaxOps
  /\ ~StopEnabled
  /\ ops' = ops + 1
  /\ lastCmd' = "stop"
  /\ UNCHANGED << model, isMonitoring, isRecording, logs, config, now, video,
                  gumPending, cycleVars, loopVars, recVars, cfgOps,
                  screenshots, warnings, rendered >>

\* -------------------------------------------------------- detection loop
\* model.detect resolves with the predictions of a frame; the rest of the
\* try block runs with the values the callback closed over, then the
\* setTimeout of the next cycle is set.  audioOk: whether playAlertSound can
\* open the audio device; when it cannot, the exception leaves the try block
\* after lastAlertTime was written and before the FPS calculation.
DetectResolve(c, frame, audioOk) ==
  LET people == FilterPeople(frame, c.cl.confidence)
      count == Len(people)
      wanted == AlertWanted(c.cl, count)
      passed == wanted /\ CooldownPassed(now, lastAlertTime)
      thrown == passed /\ ~audioOk
      delta == now - lastFpsTime
      sample == ~thrown /\ delta >= FPS_WINDOW
      point == [time |-> FormatTime(now), count |-> count]
      fired == [time |-> now, count |-> count, threshold |-> c.cl.threshold,
                enabled |-> c.cl.soundEnabled]
  IN  /\ c.phase = "detect"
      /\ stats' = UpdateStats(stats, count)
      /\ historyRef' = Append(historyRef, count)
      /\ rendered' = [predictions |-> frame, confidence |-> c.cl.confidence,
                      people |-> people]
      /\ lastAlertTime' = IF passed THEN now ELSE lastAlertTime
      /\ alertsFired' = IF passed /\ audioOk
                        THEN Append(alertsFired, fired) ELSE alertsFired
      /\ frameCount' = IF thrown THEN frameCount
                       ELSE IF sample THEN 0 ELSE frameCount + 1
      /\ fps' = IF sample THEN RoundDiv((frameCount + 1) * 1000, delta) ELSE fps
      /\ lastFpsTime' = IF sample THEN now ELSE lastFpsTime
      /\ chartData' = IF sample THEN PushChart(chartData, point) ELSE chartData
      /\ samples' = IF sample THEN Append(samples, point) ELSE samples
      /\ warnings' = IF thrown THEN Append(warnings, "audio") ELSE warnings
      /\ chains' = (chains (-) SetToBag({c})) (+) SetToBag({ScheduleNext(c.cl)})
      /\ UNCHANGED << model, isMonitoring, isRecording, logs, config, now,
                      video, gumPending, detectionLoopRef, nextRafId, recVars,
                      ops, cfgOps, screenshots, lastCmd >>

DetectDone ==
  \E c \in BagToSet(chains) : \E frame \in Frames : \E audioOk \in BOOLEAN :
    /\ Len(historyRef) < MaxCycles
    /\ DetectResolve(c, frame, audioOk)

\* model.detect rejects: catch -> console.warn, then the setTimeout.  Of the
\* console line the origin of the error is kept.
DetectFail ==
  \E c \in BagToSet(chains) :
    /\ c.phase = "detect"
    /\ warnings' = Append(warnings, "detect")
    /\ chains' = AfterCatch(chains, c)
    /\ UNCHANGED << model, isMonitoring, isRecording, logs, config, now, video,
                    gumPending, cycleVars, detectionLoopRef, nextRafId,
                    recVars, ops, cfgOps, screenshots, lastCmd, rendered >>

\* The setTimeout callback: detectionLoopRef.current = requestAnimationFrame(runDetection)
TimerCallbackTo(c, next) ==
  /\ c.phase = "timer"
  /\ chains' = (chains (-) SetToBag({c}))
               (+) SetToBag({Chain("raf", nextRafId, 0, c.cl)})
  /\ detectionLoopRef' = nextRafId
  /\ nextRafId' = next
  /\ UNCHANGED << model, isMonitoring, isRecording, logs, config, now, video,
                  gumPending, cycleVars, recVars, ops, cfgOps, screenshots,
                  lastCmd, warnings, rendered >>

\* requestAnimationFrame hands out consecutive ids.
TimerCallback(c) == TimerCallbackTo(c, nextRafId + 1)

TimerFire ==
  \E c \in BagToSet(chains) : nextRafId <= MaxCycles /\ TimerCallback(c)

\* The animation-frame callback: runDetection is called again, with the
\* closure of the render that created it.
RafFire ==
  \E c \in BagToSet(chains) :
    /\ c.phase = "raf"
    /\ chains' = RunDetectionCall(chains (-) SetToBag({c}), c.cl, video.readyState)
    /\ UNCHANGED << model, isMonitoring, isRecording, logs, config, now, video,
                    gumPending, cycleVars, detectionLoopRef, nextRafId,
                    recVars, ops, cfgOps, screenshots, lastCmd, warnings,
                    rendered >>

\* ------------------------------------------------------------- recording
\* A MediaRecorder: its state, whether its drawLoop still has an animation
\* frame pending, whether its stop event is queued, and how many times
\* onstop handed the artifact to the download.
NewRecorder == [state |-> "recording", drawLoop |-> TRUE,
                stopQueued |-> FALSE, handedOff |-> 0]

\* Click on the record button: toggleRecording.
Record(budget) ==
  /\ ops < budget
  /\ RecordEnabled
  /\ IF isRecording
     THEN /\ recorders' =
               IF mediaRecorderRef = 0 THEN recorders
               ELSE [recorders EXCEPT ![mediaRecorderRef].state = "inactive",
                                      ![mediaRecorderRef].stopQueued = TRUE]
          /\ isRecording' = FALSE
          /\ logs' = AddLog(logs, "Recording saved.", "success")
          /\ UNCHANGED mediaRecorderRef
     ELSE /\ recorders' = Append(recorders, NewRecorder)
          /\ isRecording' = TRUE
          /\ logs' = AddLog(logs, "Video recording started.", "info")
          /\ mediaRecorderRef' = Len(recorders) + 1
  /\ ops' = ops + 1
  /\ lastCmd' = "record"
  /\ UNCHANGED << model, isMonitoring, config, now, video, gumPending,
                  cycleVars, loopVars, cfgOps, screenshots, warnings,
                  rendered >>

ToggleRecording == Record(MaxOps)

\* Click on the record button while it is disabled: no handler runs.
RecordIgnored ==
  /\ ops < MaxOps
  /\ ~RecordEnabled
  /\ ops' = ops + 1
  /\ lastCmd' = "record"
  /\ UNCHANGED << model, isMonitoring, isRecording, logs, config, now, video,
                  gumPending, cycleVars, loopVars, recVars, cfgOps,
                  screenshots, warnings, rendered >>

\* recorder.onstop: the blob is built and downloaded.
RecorderOnStop ==
  \E r \in DOMAIN recorders :
    /\ recorders[r].stopQueued
    /\ recorders' = [recorders EXCEPT ![r].stopQueued = FALSE,
                                      ![r].handedOff = @ + 1]
    /\ UNCHANGED << model, isMonitoring, isRecording, logs, config, now, video,
                    gumPending, cycleVars, loopVars, mediaRecorderRef, ops,
                    cfgOps, screenshots, lastCmd, warnings, rendered >>

\* drawLoop, called from an animation frame once the recorder has stopped:
\* it does not draw and does not request another frame.  (While the
\* recorder records, drawLoop redraws and requests the next frame, which
\* leaves the recorder as it is.)
DrawLoopEnd ==
  \E r \in DOMAIN recorders :
    /\ recorders[r].drawLoop
    /\ recorders[r].state # "recording"
    /\ recorders' = [recorders EXCEPT ![r].drawLoop = FALSE]
    /\ UNCHANGED << model, isMonitoring, isRecording, logs, config, now, video,
                    gumPending, cycleVars, loopVars, mediaRecorderRef, ops,
                    cfgOps, screenshots, lastCmd, warnings, rendered >>

\* ------------------------------------------------------------ screenshots
\* Click on "Capture Frame": takeScreenshot.  Of a Screenshot the count is
\* kept; id (random), url and timestamp are not.
Capture(budget) ==
  /\ ops < budget
  /\ CaptureEnabled
  /\ screenshots' = << NewShot(stats) >> \o screenshots
  /\ logs' = AddLog(logs, "Manual screenshot captured.", "success")
  /\ ops' = ops + 1
  /\ lastCmd' = "capture"
  /\ UNCHANGED << model, isMonitoring, isRecording, config, now, video,
                  gumPending, cycleVars, loopVars, recVars, cfgOps, warnings,
                  rendered >>

TakeScreenshot == Capture(MaxOps)

\* Click on "Capture Frame" while the button is disabled: no handler runs.
CaptureIgnored ==
  /\ ops < MaxOps
  /\ ~CaptureEnabled
  /\ ops' = ops + 1
  /\ lastCmd' = "capture"
  /\ UNCHANGED << model, isMonitoring, isRecording, logs, config, now, video,
                  gumPending, cycleVars, loopVars, recVars, cfgOps,
                  screenshots, warnings, rendered >>

\* --------------------------------------------------------- configuration
\* A change of one configuration control: the setter, the render, and the
\* launch effect, which runs again because runDetection has a new identity.
SetConfig(newCfg) ==
  /\ cfgOps < MaxCfg
  /\ newCfg # config
  /\ config' = newCfg
  /\ chains' = LaunchLoop(CurClosure, Closure(model, isMonitoring, newCfg),
                          chains, detectionLoopRef, video.readyState)
  /\ cfgOps' = cfgOps + 1
  /\ UNCHANGED << model, isMonitoring, isRecording, logs, now, video,
                  gumPending, cycleVars, detectionLoopRef, nextRafId, recVars,
                  ops, screenshots, lastCmd, warnings, rendered >>

SetThreshold == \E v \in Thresholds : SetConfig([config EXCEPT !.threshold = v])

SetConfidence == \E v \in Confidences : SetConfig([config EXCEPT !.confidence = v])

SetDetectionSpeed == \E v \in Speeds : SetConfig([config EXCEPT !.detectionSpeed = v])

ToggleSound == SetConfig([config EXCEPT !.soundEnabled = ~config.soundEnabled])

\* ----------------------------------------------------------------- clock
\* Time passes: Date.now() reads a later value.
Tick(horizon) ==
  \E d \in TimeSteps :
    /\ \E t0 \in StartTimes : now + d <= t0 + horizon * 1000
    /\ now' = now + d
    /\ UNCHANGED << model, isMonitoring, isRecording, logs, config, video,
                    gumPending, cycleVars, loopVars, recVars, ops, cfgOps,
                    screenshots, lastCmd, warnings, rendered >>

ClockTick == Tick(MaxSecs)

\* --------------------------------------------------------- specifications
\* The whole component.
Next ==
  \/ LoadModelDone
  \/ LoadModelFail
  \/ StartWebcamClick
  \/ GetUserMediaResolve
  \/ GetUserMediaReject
  \/ HandleUpload
  \/ LoadedMetadata
  \/ VideoCanPlay
  \/ SourceEnds
  \/ HandleStop
  \/ StopIgnored
  \/ DetectDone
  \/ DetectFail
  \/ TimerFire
  \/ RafFire
  \/ ToggleRecording
  \/ RecordIgnored
  \/ RecorderOnStop
  \/ DrawLoopEnd
  \/ TakeScreenshot
  \/ CaptureIgnored
  \/ SetThreshold
  \/ SetConfidence
  \/ SetDetectionSpeed
  \/ ToggleSound
  \/ ClockTick

Spec == Init /\ [][Next]_vars

\* The session and the detection loop, at one reading of the clock and
\* without the recorder.
NextLoop ==
  \/ LoadModelDone
  \/ StartFromRest
  \/ GetUserMediaResolve
  \/ LoadedMetadata
  \/ VideoCanPlay
  \/ HandleStop
  \/ DetectDone
  \/ DetectFail
  \/ TimerFire
  \/ RafFire
  \/ SetConfidence

SpecLoop == Init /\ [][NextLoop]_vars

\* One webcam session, the detection loop and the clock: the alert path.
NextAlert ==
  \/ LoadModelDone
  \/ StartFromRest
  \/ GetUserMediaResolve
  \/ LoadedMetadata
  \/ VideoCanPlay
  \/ DetectDone
  \/ TimerFire
  \/ RafFire
  \/ SetThreshold
  \/ ToggleSound
  \/ ClockTick

SpecAlert == Init /\ [][NextAlert]_vars

\* The session commands and the recorder; the detection loop is launched
\* but its callbacks do not run.
NextSession ==
  \/ LoadModelDone
  \/ LoadModelFail
  \/ StartWebcamClick
  \/ GetUserMediaResolve
  \/ GetUserMediaReject
  \/ HandleUpload
  \/ LoadedMetadata
  \/ VideoCanPlay
  \/ HandleStop
  \/ ToggleRecording
  \/ RecorderOnStop
  \/ DrawLoopEnd

SpecSession == Init /\ [][NextSession]_vars

\* Every control of the action bar, operated in any session state (a
\* disabled button included), the model load and the video element.
NextControls ==
  \/ LoadModelDone
  \/ LoadModelFail
  \/ StartWebcamClick
  \/ GetUserMediaResolve
  \/ GetUserMediaReject
  \/ HandleUpload
  \/ LoadedMetadata
  \/ VideoCanPlay
  \/ HandleStop
  \/ StopIgnored
  \/ ToggleRecording
  \/ RecordIgnored
  \/ TakeScreenshot
  \/ CaptureIgnored

SpecControls == Init /\ [][NextControls]_vars

\* One webcam session watching the recorded scene, two cycles in every
\* second: the clock moves on once the cycle after a sample has run, and a
\* cycle runs when a sample is due or right after one.
TrendDetect ==
  \E c \in BagToSet(chains) :
    /\ now - lastFpsTime >= FPS_WINDOW \/ frameCount = 0
    /\ DetectResolve(c, ReelFrame(now), TRUE)

TrendTimer ==
  \E c \in BagToSet(chains) : nextRafId <= 2 * TrendSecs + 2 /\ TimerCallback(c)

TrendTick ==
  /\ frameCount = 1 /\ now - lastFpsTime < FPS_WINDOW
  /\ Tick(TrendSecs)

NextTrend ==
  \/ LoadModelDone
  \/ StartFromRest
  \/ GetUserMediaResolve
  \/ LoadedMetadata
  \/ VideoCanPlay
  \/ TrendDetect
  \/ TrendTimer
  \/ RafFire
  \/ TrendTick

SpecTrend == Init /\ [][NextTrend]_vars

\* One webcam session that is never stopped, with detections that resolve
\* or reject.  The browser runs every callback it owes: the video comes to
\* play, a pending model.detect settles, a timer and an animation frame
\* fire.  At most MaxCycles timer callbacks run before the video plays.
LiveDetectFail == Len(warnings) < MaxWarn /\ DetectFail

LiveTimer ==
  \E c \in BagToSet(chains) :
    /\ video.readyState = HAVE_ENOUGH_DATA \/ nextRafId <= MaxCycles
    /\ TimerCallback(c)

NextLive ==
  \/ LoadModelDone
  \/ StartFromRest
  \/ GetUserMediaResolve
  \/ LoadedMetadata
  \/ VideoCanPlay
  \/ DetectDone
  \/ LiveDetectFail
  \/ LiveTimer
  \/ RafFire

SpecLive ==
  /\ Init /\ [][NextLive]_vars
  /\ WF_vars(VideoCanPlay)
  /\ WF_vars(LiveTimer)
  /\ WF_vars(RafFire)

\* One webcam session in which a detection result is delivered every half
\* second, the first one at the time of mount: the k-th result is applied
\* at GridStart + GridOffset(k - 1), and the clock moves on once the
\* result of the current instant has been applied.
GridStart == CHOOSE t \in StartTimes : TRUE

GridDetect ==
  \E c \in BagToSet(chains) : \E frame \in CrowdFrames :
    /\ Len(historyRef) < MaxDeliveries
    /\ now = GridStart + GridOffset(Len(historyRef))
    /\ DetectResolve(c, frame, TRUE)

GridTick ==
  /\ now < GridStart + GridOffset(Len(historyRef))
  /\ now' = GridStart + GridOffset(Len(historyRef))
  /\ UNCHANGED << model, isMonitoring, isRecording, logs, config, video,
                  gumPending, cycleVars, loopVars, recVars, ops, cfgOps,
                  screenshots, lastCmd, warnings, rendered >>

NextGrid ==
  \/ LoadModelDone
  \/ StartFromRest
  \/ GetUserMediaResolve
  \/ LoadedMetadata
  \/ VideoCanPlay
  \/ GridDetect
  \/ LiveTimer
  \/ RafFire
  \/ GridTick

SpecGrid == Init /\ [][NextGrid]_vars

\* A session on the camera or on an uploaded file whose source may run out,
\* with a user who issues no stop.  The browser runs the timer and the
\* animation-frame callbacks it owes.  Only one chain is ever alive here, so
\* only the latest animation-frame id is ever compared, and the ids are
\* counted modulo MaxCycles.
EndingTimer ==
  \E c \in BagToSet(chains) : TimerCallbackTo(c, (nextRafId % MaxCycles) + 1)

NextEnding ==
  \/ LoadModelDone
  \/ StartFromRest
  \/ GetUserMediaResolve
  \/ HandleUpload
  \/ LoadedMetadata
  \/ VideoCanPlay
  \/ SourceEnds
  \/ DetectDone
  \/ EndingTimer
  \/ RafFire

SpecEnding ==
  /\ Init /\ [][NextEnding]_vars
  /\ WF_vars(VideoCanPlay)
  /\ WF_vars(EndingTimer)
  /\ WF_vars(RafFire)

\* An operator's round, repeated: start the camera, start a recording, take
\* a screenshot, save the recording, stop.  Every command is issued once
\* the one before it has taken effect; the detection loop's callbacks do
\* not run.
RoundStart ==
  /\ lastCmd \in {"none", "stop"}
  /\ gumPending = 0 /\ video.source = "none"
  /\ StartWebcam(MaxLogOps)

RoundRecord ==
  /\ \/ lastCmd = "start" /\ ~isRecording
     \/ lastCmd = "capture" /\ isRecording
  /\ Record(MaxLogOps)

RoundCapture == lastCmd = "record" /\ isRecording /\ Capture(MaxLogOps)

RoundStop == lastCmd = "record" /\ ~isRecording /\ Stop(MaxLogOps)

NextRound ==
  \/ LoadModelDone
  \/ RoundStart
  \/ GetUserMediaResolve
  \/ LoadedMetadata
  \/ VideoCanPlay
  \/ RoundRecord
  \/ RoundCapture
  \/ RoundStop

SpecRound == Init /\ [][NextRound]_vars

\* One webcam session with its detection loop, in which screenshots are
\* taken and which may be stopped.
NextCapture ==
  \/ LoadModelDone
  \/ StartFromRest
  \/ GetUserMediaResolve
  \/ LoadedMetadata
  \/ VideoCanPlay
  \/ DetectDone
  \/ TimerFire
  \/ RafFire
  \/ TakeScreenshot
  \/ HandleStop

SpecCapture == Init /\ [][NextCapture]_vars

\* One webcam session with its detection loop, during which the processing
\* mode is changed.
NextSpeed ==
  \/ LoadModelDone
  \/ StartFromRest
  \/ GetUserMediaResolve
  \/ LoadedMetadata
  \/ VideoCanPlay
  \/ DetectDone
  \/ TimerFire
  \/ RafFire
  \/ SetDetectionSpeed

SpecSpeed == Init /\ [][NextSpeed]_vars

\* The start commands, issued in any session state, and the clock: the
\* detection loop is launched but its callbacks do not run.
NextRestart ==
  \/ LoadModelDone
  \/ StartWebcamClick
  \/ GetUserMediaResolve
  \/ HandleUpload
  \/ LoadedMetadata
  \/ VideoCanPlay
  \/ ClockTick

SpecRestart == Init /\ [][NextRestart]_vars

\* ================================================================ claims
\* C1: at most one detection loop chain (a cycle awaiting detect, a pending
\* inter-cycle timer or a pending animation frame) is alive at any time.
C1_AtMostOneChain == BagCardinality(chains) <= 1

\* C2: a detection result that arrives while the session is Idle is not
\* applied: the counters, the trend buffer, the FPS cells and the alert
\* cooldown stay as they are.
C2_LateResultDiscarded ==
  [][(~isMonitoring /\ ~isMonitoring') =>
       UNCHANGED << stats, chartData, fps, frameCount, lastFpsTime,
       lastAlertTime >>]_vars

\* C3: while the session is Idle after a stop, the loop requests no further
\* animation frame, so no further cycle is scheduled until a new start.
C3_StopCancelsLoop ==
  [][(~isMonitoring /\ ~isMonitoring') => nextRafId' = nextRafId]_vars

C5_PeakIsRunningMax ==
  /\ [](stats.peakCount = SeqMax(historyRef) /\ stats.peakCount >= stats.currentCount)
  /\ [][stats.peakCount' >= stats.peakCount]_vars

\* C5 witness: two counts were applied and the later one is below the peak.
C5_PeakAboveCurrent ==
  /\ Len(historyRef) = 2
  /\ stats.currentCount = historyRef[2]
  /\ stats.peakCount = historyRef[1]
  /\ historyRef[1] > historyRef[2]

\* C6: totalDetections is the number of applied counts that are > 0; a
\* count of several people adds 1, a count of 0 adds nothing.
C6_TotalCountsFrames == stats.totalDetections = CountPositive(historyRef)

\* C6 witness: a frame with several people and an empty frame were applied.
C6_CrowdAndEmptyFrame ==
  /\ \E i \in DOMAIN historyRef : historyRef[i] >= 2
  /\ \E i \in DOMAIN historyRef : historyRef[i] = 0
  /\ stats.totalDetections = 1

\* C7: the trend buffer holds the last min(n, 30) of the n points appended
\* so far, in the order they were appended; so never more than 30.
C7_TrendHoldsLast30 ==
  /\ Len(chartData) = Min(Len(samples), 30)
  /\ \A i \in DOMAIN chartData :
       chartData[i] = samples[Len(samples) - Len(chartData) + i]

\* C7 witness: 31 points were appended and the buffer holds points 2..31.
C7_ThirtyFirstSample ==
  /\ Len(samples) = 31
  /\ Len(chartData) = 30
  /\ chartData[1] = samples[2] /\ chartData[1] # samples[1]
  /\ chartData[30] = samples[31]

\* C8: the session is Monitoring only when the detection model is ready.
C8_MonitoringNeedsModel == isMonitoring => model = "ready"

\* C9: the recording flag is set only while the session is Monitoring.
C9_RecordingOnlyWhileMonitoring == isRecording => isMonitoring

\* C9 witness: stop was issued while recording, and the session is Idle.
C9_StoppedWhileRecording ==
  /\ ~isMonitoring /\ ~isRecording
  /\ Len(logs) >= 2
  /\ logs[1].message = "Monitoring halted."
  /\ logs[2].message = "Video recording started."

\* C10: once the session is Idle no recorder is still recording: stop has
\* stopped the active recorder as an explicit stopRecording does.
C10_StopFinalizesRecorder ==
  ~isMonitoring => \A r \in DOMAIN recorders : recorders[r].state # "recording"

\* C11: a stop issued while the session is Idle changes nothing: the
\* session flag, the recording flag and the recorders, the log list, the
\* video element and the detection loop stay as they are.
C11_StopWhileIdleIsNoOp ==
  [][(~isMonitoring /\ ops' = ops + 1 /\ lastCmd' = "stop") =>
       UNCHANGED << isMonitoring, isRecording, recVars, logs, video,
       loopVars >>]_vars

\* C11 witness: the only command issued so far is a stop, so it was issued
\* while Idle; the session is Idle and the log has no halt entry.
C11_StopIssuedWhileIdle ==
  /\ ops = 1 /\ lastCmd = "stop"
  /\ ~isMonitoring /\ ~isRecording
  /\ \A i \in DOMAIN logs : logs[i].message # "Monitoring halted."

\* C12: a startRecording issued while the session is Idle is rejected: no
\* recorder is created or started, the recording flag and the session flag
\* stay as they are, and nothing is logged.
C12_RecordWhileIdleRejected ==
  [][(~isMonitoring /\ ops' = ops + 1 /\ lastCmd' = "record") =>
       UNCHANGED << isMonitoring, isRecording, recVars, logs >>]_vars

\* C12 witness: the model is ready, the only command issued so far is on
\* the record button, and no recorder exists.
C12_RecordIssuedWhileIdle ==
  /\ model = "ready"
  /\ ops = 1 /\ lastCmd = "record"
  /\ ~isMonitoring /\ ~isRecording
  /\ recorders = << >> /\ mediaRecorderRef = 0

\* C13: a rejected model.detect (the console reports it) leaves the session
\* flag as it is, applies nothing to the Stats, the FPS cell or the trend
\* buffer, and sets the timer of the next cycle; and while the session is
\* Monitoring a detection is always attempted again, however many
\* detections were rejected before.
C13_FailureKeepsLoopAlive ==
  /\ [][(Len(warnings') = Len(warnings) + 1 /\ warnings'[Len(warnings')] = "detect") =>
          /\ isMonitoring' = isMonitoring
          /\ UNCHANGED << stats, chartData, fps, samples, historyRef >>
          /\ PhaseCount(chains', "timer") = PhaseCount(chains, "timer") + 1]_vars
  /\ [](isMonitoring => <>(PhaseCount(chains, "detect") > 0))

\* C13 witness: the session is Monitoring, two detections were rejected, no
\* result was applied, and the cycle after the second rejection is under way.
C13_CycleAfterTwoFailures ==
  /\ isMonitoring
  /\ warnings = << "detect", "detect" >>
  /\ historyRef = << >> /\ stats.currentCount = 0
  /\ PhaseCount(chains, "detect") = 1

\* C14: when the alert tone cannot be emitted (the console reports the audio
\* error), the cycle still runs its telemetry tick for that frame (the frame
\* counter grows by one, or the FPS sample that is due is taken and a trend
\* point appended) and sets the timer of the next cycle.
C14_AlertFailureSwallowed ==
  [][(Len(warnings') = Len(warnings) + 1 /\ warnings'[Len(warnings')] = "audio") =>
       /\ \/ frameCount' = frameCount + 1
          \/ /\ now - lastFpsTime >= FPS_WINDOW
             /\ frameCount' = 0 /\ lastFpsTime' = now
             /\ Len(samples') = Len(samples) + 1
       /\ PhaseCount(chains', "timer") = PhaseCount(chains, "timer") + 1]_vars

\* C15: with threshold 3 and alerts enabled, when the counts 0, 4, 5, 4, 0, 4
\* are delivered half a second apart starting at t = 0 and no alert fired
\* before, the alerts fired after each delivery are: none after the first
\* count, exactly the one at t = 500 ms after the second to the fifth, and
\* the ones at 500 ms and 2500 ms after the sixth; and whatever the counts,
\* no alert fires for a count below the threshold.
C15_Counts == << 0, 4, 5, 4, 0, 4 >>

C15_Offsets == [i \in DOMAIN alertsFired |-> alertsFired[i].time - GridStart]

C15_HalfSecondScenario ==
  /\ \A i \in DOMAIN alertsFired : alertsFired[i].count >= config.threshold
  /\ ( /\ config.threshold = 3 /\ config.soundEnabled
       /\ Len(historyRef) <= Len(C15_Counts)
       /\ historyRef = SubSeq(C15_Counts, 1, Len(historyRef)) )
     => C15_Offsets = IF Len(historyRef) < 2 THEN << >>
                      ELSE IF Len(historyRef) < 6 THEN << 500 >>
                      ELSE << 500, 2500 >>

\* C15 witness: the six counts were delivered and the second alert fired
\* with the sixth, 2500 ms after the first delivery.
C15_SixthCountAlerts ==
  /\ historyRef = C15_Counts
  /\ now = GridStart + 2500
  /\ Len(alertsFired) = 2
  /\ alertsFired[1].time = GridStart + 500
  /\ alertsFired[2].time = now /\ lastAlertTime = now

\* C16: when getUserMedia rejects (a pending start settles and the log
\* changes), the session flag, the Stats with sessionStartTime, the video
\* element and the detection loop stay as they are, exactly one entry is
\* put on top of the log and it has severity error, and the start button
\* is as available as before.
C16_FailedStartLeavesIdle ==
  [][(gumPending' = gumPending - 1 /\ logs' # logs) =>
       /\ UNCHANGED << isMonitoring, isRecording, stats, video, loopVars >>
       /\ logs' = << logs'[1] >> \o logs
       /\ logs'[1].type = "error"
       /\ StartEnabled' = StartEnabled]_vars

\* C16 witness: the camera was refused, the session is Idle with no start
\* time, and the start button is enabled.
C16_CameraRefused ==
  /\ logs # << >>
  /\ logs[1] = [message |-> "Failed to access camera. Check permissions.",
                type |-> "error"]
  /\ ~isMonitoring /\ stats.sessionStartTime = Null
  /\ gumPending = 0 /\ StartEnabled

\* C17: when the source has run out while the session is Monitoring (and
\* no detection is still in flight), the session eventually becomes Idle
\* with a warning entry on top of the log.
C17_SourceEndStopsSession ==
  (isMonitoring /\ video.readyState = 2 /\ PhaseCount(chains, "detect") = 0)
    ~> (~isMonitoring /\ logs # << >> /\ logs[1].type = "warning")

\* C18: the log list never holds more than 100 entries, and every step
\* that logs (a stop, a capture or a recording command while Monitoring, or
\* the start of monitoring) puts its entry at index 0 and moves the
\* previous entries down by one, in order, so that with 100 entries held
\* exactly the oldest is dropped.
C18_LogStep ==
  \/ isMonitoring /\ ops' = ops + 1 /\ lastCmd' \in {"stop", "capture", "record"}
  \/ ~isMonitoring /\ isMonitoring'

C18_Entries ==
  IF ~isMonitoring
  THEN {"Live monitoring started via webcam.", "Processing video file"}
  ELSE IF lastCmd' = "stop" THEN {"Monitoring halted."}
  ELSE IF lastCmd' = "capture" THEN {"Manual screenshot captured."}
  ELSE IF isRecording THEN {"Recording saved."}
  ELSE {"Video recording started."}

C18_LogNewestFirstCapped ==
  /\ [](Len(logs) <= 100)
  /\ [][C18_LogStep =>
          /\ Len(logs') = Min(Len(logs) + 1, 100)
          /\ logs'[1].message \in C18_Entries
          /\ \A i \in 2 .. Len(logs') : logs'[i] = logs[i - 1]]_vars

\* C18 witness: 100 entries are held and the first entry ever logged (the
\* model's, logged before any session could start) is no longer among them.
C18_OldestDropped ==
  /\ model = "ready"
  /\ Len(logs) = 100
  /\ \A i \in DOMAIN logs :
       logs[i].message # "Neural network initialized and ready."

\* C19: what the filter hands on of a detect result is exactly the
\* detections with class "person" and score >= the cutoff, in the order of
\* the input (the k-th one kept is the k-th one of the input that
\* qualifies), and the count applied is the length of that list; an empty
\* result gives an empty list and count 0.
C19_Kept ==
  {i \in DOMAIN rendered.predictions :
     /\ rendered.predictions[i].class = "person"
     /\ rendered.predictions[i].score >= rendered.confidence}

C19_FilterIsExact ==
  /\ Len(rendered.people) = Cardinality(C19_Kept)
  /\ \A k \in DOMAIN rendered.people :
       \E i \in C19_Kept :
         /\ Cardinality({j \in C19_Kept : j <= i}) = k
         /\ rendered.people[k] = rendered.predictions[i]
  /\ rendered.predictions = << >> => rendered.people = << >>
  /\ historyRef # << >> =>
       /\ historyRef[Len(historyRef)] = Len(rendered.people)
       /\ stats.currentCount = Len(rendered.people)

\* C19 witness: a result with three persons, one of them with a score equal
\* to the cutoff, was filtered; all three were kept, in order.
C19_ScoreAtCutoffKept ==
  /\ rendered.confidence = 50
  /\ rendered.predictions =
       << Pred("person", 50), Pred("person", 60), Pred("person", 90) >>
  /\ rendered.people = rendered.predictions
  /\ stats.currentCount = 3

\* C20: a capture issued while the session is Idle adds no Screenshot and no
\* log entry.
C20_CaptureWhileIdleIgnored ==
  [][(~isMonitoring /\ ops' = ops + 1 /\ lastCmd' = "capture") =>
       UNCHANGED << screenshots, logs >>]_vars

\* C20 witness: a session was started and stopped, and a capture issued
\* after that left the screenshot list empty and the halt entry on top of
\* the log.
C20_CaptureIssuedAfterStop ==
  /\ ~isMonitoring
  /\ ops = 3 /\ lastCmd = "capture"
  /\ screenshots = << >>
  /\ logs # << >> /\ logs[1].message = "Monitoring halted."

\* C21: a capture taken while Monitoring puts exactly one Screenshot in
\* front of the earlier ones, which stay as they are and in order; its count
\* is currentCount, which is the count applied last (0 if none was);
\* exactly one entry of severity success goes on top of the log; and the
\* Stats are left as they are.
C21_CapturePrependsOne ==
  [][(isMonitoring /\ ops' = ops + 1 /\ lastCmd' = "capture") =>
       /\ Len(screenshots') = Len(screenshots) + 1
       /\ \A i \in DOMAIN screenshots : screenshots'[i + 1] = screenshots[i]
       /\ screenshots'[1].count = stats.currentCount
       /\ screenshots'[1].count =
            IF historyRef = << >> THEN 0 ELSE historyRef[Len(historyRef)]
       /\ logs' = << logs'[1] >> \o logs
       /\ logs'[1].type = "success"
       /\ UNCHANGED stats]_vars

\* C21 witness: two screenshots were taken with a detection between them;
\* the newer one is first and carries the current count, which is below
\* the peak.
C21_TwoShotsNewestFirst ==
  /\ Len(screenshots) = 2
  /\ screenshots[1].count = stats.currentCount
  /\ screenshots[1].count # screenshots[2].count
  /\ stats.peakCount > stats.currentCount

\* C22: the cooldown timestamp changes exactly in the steps that emit an
\* alert tone, and then it becomes the current time; no other step (a call
\* that is disabled, below the threshold or inside the cooldown, a firing
\* whose emission fails, a stop, a start) changes it.
C22_CooldownSetOnlyOnEmission ==
  [][/\ (lastAlertTime' # lastAlertTime) <=>
          (Len(alertsFired') = Len(alertsFired) + 1)
     /\ (lastAlertTime' # lastAlertTime) => (lastAlertTime' = now)]_vars

\* C23: every cycle that applies a count also runs the telemetry tick: with
\* one more frame counted, if 1000 ms or more have passed since the last
\* sample, fps becomes round(frames * 1000 / elapsed), the frame counter
\* becomes 0, the sample time becomes the current time and exactly one
\* trend point with this cycle's count is appended; otherwise the frame
\* counter grows by 1 and fps, the sample time and the trend are unchanged.
C23_TelemetryTick ==
  [][(Len(historyRef') = Len(historyRef) + 1) =>
       IF now - lastFpsTime >= 1000
       THEN /\ fps' = RoundDiv((frameCount + 1) * 1000, now - lastFpsTime)
            /\ frameCount' = 0
            /\ lastFpsTime' = now
            /\ Len(samples') = Len(samples) + 1
            /\ samples'[Len(samples')].count = historyRef'[Len(historyRef')]
       ELSE /\ frameCount' = frameCount + 1
            /\ UNCHANGED << fps, lastFpsTime, chartData, samples >>]_vars

\* C24: only a step that applies a detection result changes currentCount,
\* peakCount or totalDetections; a stop and a start leave them as they are
\* (a start changes sessionStartTime only), and peakCount and
\* totalDetections never decrease.
C24_CountersSurviveSessions ==
  [][/\ (historyRef' = historyRef) =>
          /\ stats'.currentCount = stats.currentCount
          /\ stats'.peakCount = stats.peakCount
          /\ stats'.totalDetections = stats.totalDetections
     /\ stats'.peakCount >= stats.peakCount
     /\ stats'.totalDetections >= stats.totalDetections]_vars

\* C24 witness: a session counted people, was stopped, and a second session
\* has started with the peak and the total of the first.
C24_SecondSessionKeepsPeak ==
  /\ isMonitoring /\ ops = 3
  /\ Len(logs) >= 2
  /\ logs[1].message = "Live monitoring started via webcam."
  /\ logs[2].message = "Monitoring halted."
  /\ stats.peakCount = 3 /\ stats.totalDetections > 0
  /\ stats.sessionStartTime = now

\* C25: a cycle that begins while monitoring (an animation frame calls
\* runDetection) runs under the processing mode configured at that moment:
\* the timer it sets, at once when the video has no frame or after its
\* detection, has the delay of that mode (fast 30, normal 100, accurate 250),
\* so a mode change governs every cycle that begins after it.
C25_CycleBegins ==
  /\ isMonitoring
  /\ UNCHANGED << config, video, isMonitoring >>
  /\ PhaseCount(chains', "raf") = PhaseCount(chains, "raf") - 1

C25_DelayOfModeInEffect ==
  [][C25_CycleBegins =>
       \A c \in BagToSet(chains') :
         CopiesIn(c, chains') > CopiesIn(c, chains) =>
           /\ DelayOf(c.cl.detectionSpeed) = DelayOf(config.detectionSpeed)
           /\ c.phase = "timer" => c.delay = DelayOf(config.detectionSpeed)]_vars

\* C26: in every state a recorder is in state "recording" exactly when the
\* session is monitoring and recording; at most one recorder is recording;
\* and a recorder that is no longer recording has handed its artifact off
\* once, or has its stop event queued and has not handed it off yet.
C26_Active == {r \in DOMAIN recorders : recorders[r].state = "recording"}

C26_FlagMatchesRecorder ==
  /\ (C26_Active # {}) <=> (isMonitoring /\ isRecording)
  /\ Cardinality(C26_Active) <= 1
  /\ \A r \in DOMAIN recorders :
       /\ recorders[r].state = "recording" => recorders[r].handedOff = 0
       /\ recorders[r].state # "recording" =>
            recorders[r].handedOff = (IF recorders[r].stopQueued THEN 0 ELSE 1)

\* C27: while the session is monitoring and stays monitoring, no step (a
\* start command or the completion of an earlier one) gives the video
\* element another source or restarts it, overwrites sessionStartTime, or
\* launches a detection loop.  (The step that completes the model load is
\* not a start and is left out.)
C27_StartWhileMonitoringIgnored ==
  [][(isMonitoring /\ isMonitoring' /\ model' = model) =>
       /\ video'.source = video.source
       /\ video'.readyState >= video.readyState
       /\ stats'.sessionStartTime = stats.sessionStartTime
       /\ BagCardinality(chains') <= BagCardinality(chains)]_vars
====
